---- MODULE Spec2Model ----
(***************************************************************************)
(* A model of pytube's Video (src/pytube/models.py): the two streamed      *)
(* transfers Video.download (to a local file) and Video.download_s3 (to an *)
(* S3 key), with the collaborators they call: urlopen and the response it  *)
(* returns, the local filesystem, the S3 bucket and the s3file handle.     *)
(*                                                                         *)
(* Every thread runs calls one after the other.  A call is cut into steps  *)
(* at the statements of the source; a KeyboardInterrupt, or a fault of a   *)
(* collaborator, can arrive at every step.  _bytes_received and _buffer    *)
(* are attributes of the Video object, so they are shared by its calls.    *)
(*                                                                         *)
(* Spec has one thread; SpecFair adds the progress of sequential code;     *)
(* SpecConc has two threads that call download at the same time; SpecLt    *)
(* compares Video objects with Video.__lt__.                               *)
(***************************************************************************)
EXTENDS Integers, Sequences, FiniteSets, TLC

VARIABLES
    threads,         \* the threads that call methods of the one Video object
    src,             \* the bytes the remote locator delivers before end-of-stream
    meta_data,       \* the response headers, as meta_data of lines 84 and 160
    fs,              \* the local files: path -> [exists, data]
    s3,              \* the objects of the bucket: key -> [exists, data, acl]
    bytes_received,  \* self._bytes_received
    buffer,          \* self._buffer
    pc,              \* per thread: the statement it is at
    args,            \* per thread: the arguments of the call in progress
    path,            \* per thread: the local `path` of download
    video_key_path,  \* per thread: the local `video_key_path` of download_s3
    pos,             \* per thread: bytes its response has handed out so far
    file_size,       \* per thread: the local `file_size`
    dst_open,        \* per thread: whether dst_file is open
    dst_buf,         \* per thread: what was written through dst_file so far
    outcome,         \* per thread: how the last call ended
    retval,          \* per thread: what the last call returned
    log,             \* per thread: the calls made to collaborators and callbacks
    videos,          \* the Video objects that are compared with one another
    lt_result        \* what the calls of Video.__lt__ returned

vars == <<threads, src, meta_data, fs, s3, bytes_received,
          buffer, pc, args, path, video_key_path, pos, file_size,
          dst_open, dst_buf, outcome, retval, log, videos, lt_result>>

-----------------------------------------------------------------------------
(* Bounds of the model *)

MaxLen == 2      \* longest source stream, in bytes
MaxChunk == 2    \* largest chunk_size

-----------------------------------------------------------------------------
(* Values *)

None == "None"
Threads == {"t1", "t2"}

\* The Video object of the model: Video(url, "clip", "mp4")
self_filename == "clip"
self_extension == "mp4"

\* "{0}.{1}".format(self.filename, self.extension)
FormatName(filename, extension) == filename \o "." \o extension

\* A path is the sequence of its components.  os.path.normpath drops the
\* "." components (the inputs of the model hold no "..", no empty component).
RECURSIVE normpath(_)
normpath(p) ==
    IF p = <<>> THEN <<>>
    ELSE IF Head(p) = "." THEN normpath(Tail(p))
    ELSE <<Head(p)>> \o normpath(Tail(p))

\* os.path.join(path, filename)
join(p, name) == Append(p, name)

\* The directories of the filesystem, and the file paths a call can reach.
Dirs == { <<"out">> }
Files == { <<"out", "clip.mp4">>, <<"vid.bin">> }
PathArgs == { <<"out", ".">>, <<"vid.bin">>, <<".", "vid.bin">> }

isdir(p) == p \in Dirs
isfile(f, p) == p \in DOMAIN f /\ f[p].exists

\* ResolvePath without the join of line 76
ResolvePath_NoJoin(p) == normpath(p)

\* lines 73-76: the path the download writes to
ResolvePath(p) ==
    LET n == normpath(p)
    IN  IF isdir(n) THEN join(n, FormatName(self_filename, self_extension))
        ELSE n

\* lines 149-151: the key the object is written at
VideoDirs == { "", "d" }
VideoKeyPath(video_dir) ==
    LET k == FormatName(self_filename, self_extension)
    IN  IF video_dir # "" THEN video_dir \o "/" \o k ELSE k
Keys == { VideoKeyPath(d) : d \in VideoDirs }

s3_bucket_name == "bkt"
AclDefault == "public-read"

\* The bytes of the source, and what a file or object holds before any call.
Stream(n) == [i \in 1..n |-> i]
OldData == <<0>>
NoFile == [exists |-> FALSE, data |-> <<>>]
OldFile == [exists |-> TRUE, data |-> OldData]
NoObject == [exists |-> FALSE, data |-> <<>>, acl |-> None]

\* The header names the code looks up, and a header value for n bytes.
HeaderNames == { "Content-Length", "content-length" }
NoHeaders == [h \in HeaderNames |-> None]

\* int(s) for the decimal strings of the model
IntOf(s) == CHOOSE n \in 0..(MaxLen + 1) : ToString(n) = s

\* Python's `a or b` on header values: None and "" are false
PyOr(a, b) == IF a # None /\ a # "" THEN a ELSE b

\* lines 85-86 / 161-162: the value handed to int(); None makes int() raise
SizeHeader(md) == PyOr(md["Content-Length"], md["content-length"])

Event(e, a) == [ev |-> e, arg |-> a]
Events(l, e) == SelectSeq(l, LAMBDA x : x.ev = e)

Min(a, b) == IF a < b THEN a ELSE b

-----------------------------------------------------------------------------
(* The filesystem, the bucket and the response, as the code uses them *)

\* (mutation of Conflict: the overwrite flag read the wrong way round)
Conflict_FlagInverted(f, p, force_overwrite) == isfile(f, p) /\ force_overwrite

\* line 80: the test that makes download raise OSError("Conflicting filename")
Conflict(f, p, force_overwrite) == isfile(f, p) /\ ~force_overwrite

\* OpenWb without the truncation, as open(path, 'r+b') or 'ab' would do
OpenWb_KeepsData(f, p) == [f EXCEPT ![p].exists = TRUE]

\* line 92: open(path, 'wb') creates the file, or truncates the one there
OpenWb(f, p) == [f EXCEPT ![p] = [exists |-> TRUE, data |-> <<>>]]

\* WriteFile with every chunk written at the start of the file
WriteFile_AtStart(f, p, off, chunk) ==
    [f EXCEPT ![p].data = chunk \o SubSeq(@, Len(chunk) + 1, Len(@))]

\* line 105: dst_file.write(chunk) at the offset off of the handle.  The
\* chunk replaces what the file holds there; a file that was truncated below
\* the offset in the meantime is filled with zero bytes up to it.
WriteFile(f, p, off, chunk) ==
    LET old == f[p].data
        end == off + Len(chunk)
        n == IF Len(old) > end THEN Len(old) ELSE end
    IN  [f EXCEPT ![p].data =
            [i \in 1..n |-> IF i > off /\ i <= end THEN chunk[i - off]
                            ELSE IF i <= Len(old) THEN old[i] ELSE 0]]

\* (mutation of Remove: the partial file is left where it is)
Remove_Skipped(f, p) == f

\* line 113: os.remove(path)
Remove(f, p) == [f EXCEPT ![p] = NoFile]

\* leaving `with s3open(...)`: the handle's close sends what it buffered
Upload(store, k, data) ==
    [store EXCEPT ![k] = [exists |-> TRUE, data |-> data, acl |-> None]]

\* line 193: video_key.delete()
DeleteKey(store, k) == [store EXCEPT ![k] = NoObject]

\* line 186: video_key.set_acl(acl_permission)
ApplyAcl(store, k, acl) == [store EXCEPT ![k].acl = acl]

\* (mutation of BucketMissing: the failed lookup is not noticed)
BucketMissing_Ignored(found) == FALSE

\* lines 152-156: get_bucket(...).new_key(...) raises when the bucket is
\* not found, and the bare except turns that into return None, None
BucketMissing(found) == ~found

\* ReadSizes of a source that never reports its end: the read that follows
\* the last byte does not return
ReadSizes_NoEndOfStream(chunk_size, remaining) ==
    IF remaining = 0 THEN {}
    ELSE 1..(IF chunk_size < remaining THEN chunk_size ELSE remaining)

\* lines 94 / 170: response.read(chunk_size) hands out between 1 and
\* chunk_size of the bytes that remain, and 0 bytes only at end-of-stream
ReadSizes(chunk_size, remaining) ==
    IF remaining = 0 THEN {0} ELSE 1..Min(chunk_size, remaining)

\* (mutation of Accumulate: the counter is assigned, not added to)
Accumulate_Assigned(received, chunk) == Len(chunk)

\* lines 104 / 181: self._bytes_received += len(self._buffer)
Accumulate(received, chunk) == received + Len(chunk)

\* (mutation of AfterEof: download_s3 sets the ACL inside the with block,
\* before the handle is released)
\* AfterEof with on_finish called by download_s3 as well
AfterEof_FinishInS3(a) == IF a.on_finish THEN "on_finish" ELSE "close"

AfterEof_AclInsideWith(a) ==
    IF a.op = "download_s3" THEN "set_acl"
    ELSE IF a.on_finish THEN "on_finish" ELSE "close"

\* lines 96-102 / 172-179: where an empty read leads.  download calls
\* on_finish(path); in download_s3 the call is commented out (pass).
AfterEof(a) ==
    IF a.on_finish /\ a.op = "download" THEN "on_finish" ELSE "close"

\* AfterWrite with the loop left after the first chunk
AfterWrite_StopsAfterOne(a) == IF a.on_progress THEN "on_progress" ELSE "close"

\* lines 106 / 183: where a written chunk leads
AfterWrite(a) == IF a.on_progress THEN "on_progress" ELSE "read"

\* The statements inside try: (lines 91-107, 166-187).  A KeyboardInterrupt
\* raised at one of them reaches the except clause of lines 109 / 189.
TryBlock(op) ==
    IF op = "download"
    THEN {"open", "read", "count", "write", "on_progress", "on_finish", "close"}
    ELSE {"open", "read", "count", "write", "on_progress", "close",
          "set_acl", "return"}

\* The statements of the while loop (lines 93-107, 169-184)
LoopBody == {"read", "count", "write", "on_progress", "on_finish"}

\* The statements that call a collaborator that can raise an I/O error
FaultPoints(op) ==
    IF op = "download"
    THEN {"urlopen", "open", "read", "write", "close"}
    ELSE {"urlopen", "open", "read", "write", "close", "set_acl"}

\* How a call ends (`outcome`):
\*   "returned"     the method returned (download: None; download_s3: retval)
\*   "Conflict"     OSError("Conflicting filename") of line 81
\*   "TypeError"    int(None) of lines 85 / 161
\*   "IOError"      an error of urlopen, open, read, write, close or set_acl
\*   "Aborted"      KeyboardInterrupt("... Deleting incomplete video.")
\*                  of lines 114 / 194
\*   "Interrupted"  a KeyboardInterrupt that arrived outside try:
\*   "RemoveError"  OSError of os.remove (line 113) on a missing file
InProgress == "in progress"

NoReturn == <<>>

\* The arguments a call can be given
DownloadArgs ==
    [op : {"download"}, path : PathArgs, video_dir : {""},
     chunk_size : 1..MaxChunk, on_progress : BOOLEAN, on_finish : BOOLEAN,
     force_overwrite : BOOLEAN, acl_permission : {AclDefault}]
DownloadS3Args ==
    [op : {"download_s3"}, path : {<<>>}, video_dir : VideoDirs,
     chunk_size : 1..MaxChunk, on_progress : BOOLEAN, on_finish : BOOLEAN,
     force_overwrite : {FALSE}, acl_permission : {AclDefault}]
NoArgs ==
    [op |-> None, path |-> <<>>, video_dir |-> "", chunk_size |-> 1,
     on_progress |-> FALSE, on_finish |-> FALSE, force_overwrite |-> FALSE,
     acl_permission |-> AclDefault]

\* The headers a response of n bytes can carry: none, or the length under
\* one of the two spellings.  A connection that drops early delivers fewer
\* bytes than the header advertised, never more.
Headers(n) ==
    {NoHeaders}
    \cup { [NoHeaders EXCEPT !["Content-Length"] = ToString(adv)] :
             adv \in n..Min(n + 1, MaxLen) }
    \cup { [NoHeaders EXCEPT !["content-length"] = ToString(n)] }

-----------------------------------------------------------------------------
(* Initial state: no call has been made *)

InitEnv ==
    /\ src \in { Stream(n) : n \in 0..MaxLen }
    /\ meta_data \in Headers(Len(src))
    /\ fs \in { [f \in Files |-> NoFile], [f \in Files |-> OldFile] }
    /\ s3 = [k \in Keys |-> NoObject]
    /\ bytes_received = 0
    /\ buffer = <<>>
    /\ pc = [t \in Threads |-> "idle"]
    /\ args = [t \in Threads |-> NoArgs]
    /\ path = [t \in Threads |-> <<>>]
    /\ video_key_path = [t \in Threads |-> ""]
    /\ pos = [t \in Threads |-> 0]
    /\ file_size = [t \in Threads |-> 0]
    /\ dst_open = [t \in Threads |-> FALSE]
    /\ dst_buf = [t \in Threads |-> <<>>]
    /\ outcome = [t \in Threads |-> InProgress]
    /\ retval = [t \in Threads |-> NoReturn]
    /\ log = [t \in Threads |-> <<>>]

\* Spec: one thread, whose calls follow one another; nothing is compared
Init == threads = {"t1"} /\ InitEnv /\ videos = <<>> /\ lt_result = {}

-----------------------------------------------------------------------------
(* Steps of a call *)

Goto(t, l) == pc' = [pc EXCEPT ![t] = l]
Logged(t, e, a) == log' = [log EXCEPT ![t] = Append(@, Event(e, a))]

\* The call of thread t ends with outcome oc and return value rv
End(t, oc, rv) ==
    /\ pc' = [pc EXCEPT ![t] = "done"]
    /\ outcome' = [outcome EXCEPT ![t] = oc]
    /\ retval' = [retval EXCEPT ![t] = rv]

\* A thread makes its calls one after the other, and all of them to the
\* same method.  A call starts with fresh locals.
Begin(t, a) ==
    /\ pc[t] = "idle"
    /\ args[t].op \in {None, a.op}
    /\ args' = [args EXCEPT ![t] = a]
    /\ path' = [path EXCEPT ![t] = IF a.op = "download"
                                   THEN ResolvePath(a.path) ELSE <<>>]
    /\ video_key_path' =
           [video_key_path EXCEPT ![t] = IF a.op = "download_s3"
                                         THEN VideoKeyPath(a.video_dir) ELSE ""]

\* lines 54-81: download(a) resolves the path and tests for a conflict
DownloadCall(t, a) ==
    LET p == ResolvePath(a.path) IN
    /\ Begin(t, a)
    /\ IF Conflict(fs, p, a.force_overwrite)
       THEN End(t, "Conflict", NoReturn)
       ELSE Goto(t, "urlopen") /\ UNCHANGED <<outcome, retval>>
    /\ UNCHANGED <<videos, lt_result, threads, src, meta_data, fs, s3,
                   bytes_received, buffer, pos, file_size, dst_open,
                   dst_buf, log>>

\* A call of download with any of the arguments of the model
Download(t) == \E a \in DownloadArgs : DownloadCall(t, a)

\* lines 117-156: download_s3 connects, names the key and gets the bucket
DownloadS3(t) ==
    \E a \in DownloadS3Args, found \in BOOLEAN :
        /\ Begin(t, a)
        /\ Logged(t, "get_bucket", found)
        /\ IF BucketMissing(found)
           THEN End(t, "returned", <<None, None>>)
           ELSE Goto(t, "urlopen") /\ UNCHANGED <<outcome, retval>>
        /\ UNCHANGED <<videos, lt_result, threads, src, meta_data, fs, s3, bytes_received,
                       buffer, pos, file_size, dst_open, dst_buf>>

\* lines 83 / 159: response = urlopen(self.url)
UrlOpen(t) ==
    /\ pc[t] = "urlopen"
    /\ Logged(t, "urlopen", 0)
    /\ pos' = [pos EXCEPT ![t] = 0]
    /\ Goto(t, "meta")
    /\ UNCHANGED <<videos, lt_result, threads, src, meta_data, fs, s3,
                   bytes_received, buffer, args, path, video_key_path,
                   file_size, dst_open, dst_buf, outcome, retval>>

\* lines 84-88 / 160-164: the size from the headers, the counter set to 0
Meta(t) ==
    /\ pc[t] = "meta"
    /\ IF SizeHeader(meta_data) = None
       THEN /\ End(t, "TypeError", NoReturn)
            /\ UNCHANGED <<file_size, bytes_received>>
       ELSE /\ file_size' =
                   [file_size EXCEPT ![t] = IntOf(SizeHeader(meta_data))]
            /\ bytes_received' = 0
            /\ Goto(t, "open")
            /\ UNCHANGED <<outcome, retval>>
    /\ UNCHANGED <<videos, lt_result, threads, src, meta_data, fs, s3, buffer,
                   args, path, video_key_path, pos, dst_open, dst_buf, log>>

\* line 92: what open(path, 'wb') does to a file that exists: its bytes are
\* dropped.  The event carries how many they were.
Truncation(f, a, p) ==
    IF a.op = "download" /\ isfile(f, p)
    THEN <<Event("truncate", Len(f[p].data))>> ELSE <<>>

\* lines 92 / 167-168: the sink is opened
Open(t) ==
    /\ pc[t] = "open"
    /\ dst_open' = [dst_open EXCEPT ![t] = TRUE]
    /\ dst_buf' = [dst_buf EXCEPT ![t] = <<>>]
    /\ fs' = IF args[t].op = "download" THEN OpenWb(fs, path[t]) ELSE fs
    /\ log' = [log EXCEPT ![t] =
                  @ \o Truncation(fs, args[t], path[t])
                    \o <<Event("open", IF args[t].op = "download" THEN path[t]
                                       ELSE video_key_path[t])>>]
    /\ Goto(t, "read")
    /\ UNCHANGED <<videos, lt_result, threads, src, meta_data, s3,
                   bytes_received, buffer, args, path, video_key_path, pos,
                   file_size, outcome, retval>>

\* lines 94-102 / 170-179: one read, and the test for the empty chunk
Read(t) ==
    /\ pc[t] = "read"
    /\ \E k \in ReadSizes(args[t].chunk_size, Len(src) - pos[t]) :
        /\ buffer' = SubSeq(src, pos[t] + 1, pos[t] + k)
        /\ pos' = [pos EXCEPT ![t] = @ + k]
        /\ Logged(t, "read", k)
        /\ Goto(t, IF k = 0 THEN AfterEof(args[t]) ELSE "count")
    /\ UNCHANGED <<videos, lt_result, threads, src, meta_data, fs, s3,
                   bytes_received, args, path, video_key_path, file_size,
                   dst_open, dst_buf, outcome, retval>>

\* line 101: on_finish(path)
OnFinish(t) ==
    /\ pc[t] = "on_finish"
    /\ Logged(t, "on_finish", path[t])
    /\ Goto(t, "close")
    /\ UNCHANGED <<videos, lt_result, threads, src, meta_data, fs, s3,
                   bytes_received, buffer, args, path, video_key_path, pos,
                   file_size, dst_open, dst_buf, outcome, retval>>

\* lines 104 / 181: the counter grows by the length of the chunk
Count(t) ==
    /\ pc[t] = "count"
    /\ bytes_received' = Accumulate(bytes_received, buffer)
    /\ Goto(t, "write")
    /\ UNCHANGED <<videos, lt_result, threads, src, meta_data, fs, s3, buffer,
                   args, path, video_key_path, pos, file_size, dst_open,
                   dst_buf, outcome, retval, log>>

\* lines 105 / 182: dst_file.write(self._buffer)
Write(t) ==
    /\ pc[t] = "write"
    /\ IF args[t].op = "download"
       THEN fs' = WriteFile(fs, path[t], Len(dst_buf[t]), buffer)
       ELSE UNCHANGED fs
    /\ dst_buf' = [dst_buf EXCEPT ![t] = @ \o buffer]
    /\ Logged(t, "write", Len(buffer))
    /\ Goto(t, AfterWrite(args[t]))
    /\ UNCHANGED <<videos, lt_result, threads, src, meta_data, s3,
                   bytes_received, buffer, args, path, video_key_path, pos,
                   file_size, dst_open, outcome, retval>>

\* lines 107 / 184: on_progress(self._bytes_received, file_size, start)
OnProgress(t) ==
    /\ pc[t] = "on_progress"
    /\ Logged(t, "on_progress", bytes_received)
    /\ Goto(t, "read")
    /\ UNCHANGED <<videos, lt_result, threads, src, meta_data, fs, s3,
                   bytes_received, buffer, args, path, video_key_path, pos,
                   file_size, dst_open, dst_buf, outcome, retval>>

\* Leaving the with block releases the handle.  The file's bytes are
\* already in fs; the s3file handle sends what it buffered to the key.
ExitWith(store, a, k, data) ==
    IF a.op = "download_s3" THEN Upload(store, k, data) ELSE store

\* Leaving the with block at the end of the loop (lines 102 / 179, break);
\* download then returns None, download_s3 goes on to line 186
Close(t) ==
    /\ pc[t] = "close"
    /\ dst_open' = [dst_open EXCEPT ![t] = FALSE]
    /\ s3' = ExitWith(s3, args[t], video_key_path[t], dst_buf[t])
    /\ Logged(t, "close", 0)
    /\ IF args[t].op = "download"
       THEN End(t, "returned", NoReturn)
       ELSE Goto(t, "set_acl") /\ UNCHANGED <<outcome, retval>>
    /\ UNCHANGED <<videos, lt_result, threads, src, meta_data, fs,
                   bytes_received, buffer, args, path, video_key_path, pos,
                   file_size, dst_buf>>

\* line 186: video_key.set_acl(acl_permission)
SetAcl(t) ==
    /\ pc[t] = "set_acl"
    /\ s3' = ApplyAcl(s3, video_key_path[t], args[t].acl_permission)
    /\ Logged(t, "set_acl", 0)
    /\ Goto(t, "return")
    /\ UNCHANGED <<videos, lt_result, threads, src, meta_data, fs,
                   bytes_received, buffer, args, path, video_key_path, pos,
                   file_size, dst_open, dst_buf, outcome, retval>>

\* line 187: return s3_bucket_name, video_key_path
Return(t) ==
    /\ pc[t] = "return"
    /\ End(t, "returned", <<s3_bucket_name, video_key_path[t]>>)
    /\ UNCHANGED <<videos, lt_result, threads, src, meta_data, fs, s3,
                   bytes_received, buffer, args, path, video_key_path, pos,
                   file_size, dst_open, dst_buf, log>>

\* (mutation of UnwindEvents: the cleanup runs with the handle still open)
UnwindEvents_CleanupFirst(was_open, cleanup) ==
    cleanup \o (IF was_open THEN <<Event("close", 0)>> ELSE <<>>)

\* What the calls of the handler add to the log: the with block is left
\* (the handle closed) before the except clause runs.
UnwindEvents(was_open, cleanup) ==
    (IF was_open THEN <<Event("close", 0)>> ELSE <<>>) \o cleanup

\* Fault with the error caught by the handler of lines 109-115 / 189-195, as
\* a bare `except:` would: the output is deleted, the abort is raised
Fault_HandledAsAbort(t) ==
    /\ pc[t] \in FaultPoints(args[t].op)
    /\ dst_open' = [dst_open EXCEPT ![t] = FALSE]
    /\ fs' = IF args[t].op = "download" /\ isfile(fs, path[t])
             THEN Remove(fs, path[t]) ELSE fs
    /\ s3' = IF args[t].op = "download_s3"
             THEN DeleteKey(s3, video_key_path[t]) ELSE s3
    /\ log' = [log EXCEPT ![t] =
                  Append(@, Event("fault", pc[t]))
                  \o UnwindEvents(dst_open[t], <<Event("remove", path[t])>>)]
    /\ End(t, "Aborted", NoReturn)
    /\ UNCHANGED <<videos, lt_result, threads, src, meta_data,
                   bytes_received, buffer, args, path, video_key_path, pos,
                   file_size, dst_buf>>

\* A collaborator raises an error that is no KeyboardInterrupt: urlopen,
\* open, read, write, the close on leaving the with block, or set_acl.
\* No except clause matches it: the with block is left and the error
\* reaches the caller.  A close that fails sends nothing to the key.
Fault(t) ==
    /\ pc[t] \in FaultPoints(args[t].op)
    /\ dst_open' = [dst_open EXCEPT ![t] = FALSE]
    /\ s3' = IF dst_open[t] /\ pc[t] # "close"
             THEN ExitWith(s3, args[t], video_key_path[t], dst_buf[t])
             ELSE s3
    /\ log' = [log EXCEPT ![t] =
                  Append(@, Event("fault", pc[t]))
                  \o UnwindEvents(dst_open[t], <<>>)]
    /\ End(t, "IOError", NoReturn)
    /\ UNCHANGED <<videos, lt_result, threads, src, meta_data, fs,
                   bytes_received, buffer, args, path, video_key_path, pos,
                   file_size, dst_buf>>

\* (mutation of AbortStore: the key is deleted while the handle is still
\* open, so that the close that follows sends the buffer to the key again)
AbortStore_DeleteBeforeClose(store, a, k, was_open, data) ==
    IF was_open THEN ExitWith(DeleteKey(store, k), a, k, data)
    ELSE DeleteKey(store, k)

\* lines 189-195: the handler of download_s3.  The with block has been
\* left when it runs, so an open handle has sent its buffer to the key
\* before video_key.delete().
AbortStore(store, a, k, was_open, data) ==
    DeleteKey(IF was_open THEN ExitWith(store, a, k, data) ELSE store, k)

\* A KeyboardInterrupt arrives while thread t is in a call.  Outside try:
\* it reaches the caller as it is.  Inside try: the with block is left,
\* then the handler of lines 109-115 / 189-195 deletes the output and
\* raises KeyboardInterrupt("... Deleting incomplete video.").
Interrupt(t) ==
    /\ pc[t] \in {"urlopen", "meta"} \cup TryBlock(args[t].op)
    /\ dst_open' = [dst_open EXCEPT ![t] = FALSE]
    /\ IF pc[t] \notin TryBlock(args[t].op)
       THEN /\ log' = [log EXCEPT ![t] = Append(@, Event("interrupt", pc[t]))]
            /\ End(t, "Interrupted", NoReturn)
            /\ UNCHANGED <<fs, s3>>
       ELSE IF args[t].op = "download"
       THEN /\ log' = [log EXCEPT ![t] =
                          Append(@, Event("interrupt", pc[t]))
                          \o UnwindEvents(dst_open[t], <<Event("remove", path[t])>>)]
            /\ IF isfile(fs, path[t])
               THEN fs' = Remove(fs, path[t]) /\ End(t, "Aborted", NoReturn)
               ELSE fs' = fs /\ End(t, "RemoveError", NoReturn)
            /\ UNCHANGED s3
       ELSE /\ log' = [log EXCEPT ![t] =
                          Append(@, Event("interrupt", pc[t]))
                          \o UnwindEvents(dst_open[t], <<Event("delete", video_key_path[t])>>)]
            /\ s3' = AbortStore(s3, args[t], video_key_path[t], dst_open[t],
                                dst_buf[t])
            /\ End(t, "Aborted", NoReturn)
            /\ UNCHANGED fs
    /\ UNCHANGED <<videos, lt_result, threads, src, meta_data, bytes_received,
                   buffer, args, path, video_key_path, pos, file_size,
                   dst_buf>>

\* The caller has the result of the call; the locals of the call are gone.
\* What the thread keeps is the method it calls.
Returned(t) ==
    /\ pc[t] = "done"
    /\ Goto(t, "idle")
    /\ args' = [args EXCEPT ![t] = [NoArgs EXCEPT !.op = args[t].op]]
    /\ path' = [path EXCEPT ![t] = <<>>]
    /\ video_key_path' = [video_key_path EXCEPT ![t] = ""]
    /\ pos' = [pos EXCEPT ![t] = 0]
    /\ file_size' = [file_size EXCEPT ![t] = 0]
    /\ dst_buf' = [dst_buf EXCEPT ![t] = <<>>]
    /\ outcome' = [outcome EXCEPT ![t] = InProgress]
    /\ retval' = [retval EXCEPT ![t] = NoReturn]
    /\ log' = [log EXCEPT ![t] = <<>>]
    /\ UNCHANGED <<videos, lt_result, threads, src, meta_data, fs, s3, bytes_received, buffer,
                   dst_open>>

-----------------------------------------------------------------------------
(* Specification *)

Next ==
    \/ \E t \in threads : Download(t)
    \/ \E t \in threads : DownloadS3(t)
    \/ \E t \in threads : UrlOpen(t)
    \/ \E t \in threads : Meta(t)
    \/ \E t \in threads : Open(t)
    \/ \E t \in threads : Read(t)
    \/ \E t \in threads : OnFinish(t)
    \/ \E t \in threads : Count(t)
    \/ \E t \in threads : Write(t)
    \/ \E t \in threads : OnProgress(t)
    \/ \E t \in threads : Close(t)
    \/ \E t \in threads : SetAcl(t)
    \/ \E t \in threads : Return(t)
    \/ \E t \in threads : Fault(t)
    \/ \E t \in threads : Interrupt(t)
    \/ \E t \in threads : Returned(t)

Spec == Init /\ [][Next]_vars

-----------------------------------------------------------------------------
(* Video.__lt__ (lines 202-212) *)

NumVideos == 3   \* how many Video objects are compared with one another

\* A str is the sequence of its code points.  The extensions "flv", "mp4"
\* and "mp"; the resolutions "1080p", "720p", "4", "" and None.
Extensions == {<<102, 108, 118>>, <<109, 112, 52>>, <<109, 112>>}
NoResolution == [none |-> TRUE, str |-> <<>>]
Resolutions ==
    {NoResolution}
    \cup { [none |-> FALSE, str |-> r] :
             r \in {<<49, 48, 56, 48, 112>>, <<55, 50, 48, 112>>, <<52>>, <<>>} }
Videos == [extension : Extensions, resolution : Resolutions]

\* What "{0}".format(x) makes of a resolution: the str itself, or "None"
str(x) == IF x.none THEN <<78, 111, 110, 101>> ELSE x.str

\* "{0} {1}".format(extension, resolution)
format(extension, resolution) == extension \o <<32>> \o str(resolution)

\* a < b and a > b of two str: the first code point that differs decides,
\* and a proper prefix is the smaller
RECURSIVE StrLt(_, _)
StrLt(a, b) ==
    IF b = <<>> THEN FALSE
    ELSE IF a = <<>> THEN TRUE
    ELSE IF Head(a) # Head(b) THEN Head(a) < Head(b)
    ELSE StrLt(Tail(a), Tail(b))

StrGt(a, b) == StrLt(b, a)

\* int(True) = 1, int(False) = 0: Python subtracts bools as integers
BoolInt(b) == IF b THEN 1 ELSE 0

\* lines 210-212 with the sign of the test reversed
lt_SignReversed(self, other) ==
    LET v1 == format(self.extension, self.resolution)
        v2 == format(other.extension, other.resolution)
    IN  BoolInt(StrGt(v1, v2)) - BoolInt(StrLt(v1, v2)) > 0

\* lines 202-212, for `other` a Video (isinstance holds):
\* return (v1 > v2) - (v1 < v2) < 0
lt(self, other) ==
    LET v1 == format(self.extension, self.resolution)
        v2 == format(other.extension, other.resolution)
    IN  BoolInt(StrGt(v1, v2)) - BoolInt(StrLt(v1, v2)) < 0

\* SpecLt starts with NumVideos Video objects and no comparison made; no
\* thread transfers anything
InitLt ==
    /\ threads = {}
    /\ InitEnv
    /\ src = <<>> /\ meta_data = NoHeaders /\ fs = [f \in Files |-> NoFile]
    /\ videos \in [1..NumVideos -> Videos]
    /\ lt_result = {}

\* videos[i] < videos[j] is evaluated for every i and j
Compare ==
    /\ lt_result = {}
    /\ lt_result' = { [self |-> i, other |-> j,
                       result |-> lt(videos[i], videos[j])] :
                         i \in 1..NumVideos, j \in 1..NumVideos }
    /\ UNCHANGED <<videos, threads, src, meta_data, fs, s3, bytes_received,
                   buffer, pc, args, path, video_key_path, pos, file_size,
                   dst_open, dst_buf, outcome, retval, log>>

NextLt == Compare

SpecLt == InitLt /\ [][NextLt]_vars

-----------------------------------------------------------------------------
(* Two threads that call download on the one Video object *)

\* The calls of SpecConc: a directory or a file as the path, one byte at a
\* time, with on_progress and without force_overwrite
ConcurrentArgs ==
    { a \in DownloadArgs : /\ a.path \in {<<"out", ".">>, <<"vid.bin">>}
                           /\ a.chunk_size = 1
                           /\ a.on_progress /\ ~a.on_finish
                           /\ ~a.force_overwrite }

\* No file exists; the response holds MaxLen bytes and says so
InitConc ==
    /\ threads = Threads
    /\ InitEnv
    /\ src = Stream(MaxLen)
    /\ meta_data = [NoHeaders EXCEPT !["Content-Length"] = ToString(MaxLen)]
    /\ fs = [f \in Files |-> NoFile]
    /\ videos = <<>>
    /\ lt_result = {}

\* Each thread makes one call; the statements of the two calls interleave
\* and nothing interrupts them
NextConc ==
    \/ \E t \in threads : \E a \in ConcurrentArgs : DownloadCall(t, a)
    \/ \E t \in threads : UrlOpen(t)
    \/ \E t \in threads : Meta(t)
    \/ \E t \in threads : Open(t)
    \/ \E t \in threads : Read(t)
    \/ \E t \in threads : Count(t)
    \/ \E t \in threads : Write(t)
    \/ \E t \in threads : OnProgress(t)
    \/ \E t \in threads : Close(t)

SpecConc == InitConc /\ [][NextConc]_vars

\* The statement thread t is at returns and the call goes on: the
\* collaborator it calls answers, without an error
Proceed(t) ==
    \/ UrlOpen(t) \/ Meta(t) \/ Open(t) \/ Read(t) \/ OnFinish(t)
    \/ Count(t) \/ Write(t) \/ OnProgress(t) \/ Close(t) \/ SetAcl(t)
    \/ Return(t)

\* Spec with the progress of sequential code: a call that can execute its
\* next statement executes it, unless an error or a KeyboardInterrupt ends
\* the call first.  Reads and writes block, they do not hang for ever.
\* The response of SpecFair says how long it is, so that every call gets
\* as far as the copy loop.
InitFair ==
    /\ Init
    /\ meta_data = [NoHeaders EXCEPT !["Content-Length"] = ToString(Len(src))]

SpecFair ==
    /\ InitFair
    /\ [][Next]_vars
    /\ \A t \in Threads : WF_vars(Proceed(t))

TypeOK ==
    /\ threads \subseteq Threads
    /\ bytes_received \in Nat
    /\ \A t \in Threads :
        /\ pc[t] \in {"idle", "urlopen", "meta", "open", "read", "count",
                      "write", "on_progress", "on_finish", "close",
                      "set_acl", "return", "done"}
        /\ pos[t] \in 0..Len(src)
        /\ dst_open[t] \in BOOLEAN

-----------------------------------------------------------------------------
(* Reading the log of a call *)

Has(l, e) == \E i \in 1..Len(l) : l[i].ev = e
Times(l, e) == Len(Events(l, e))
FirstAt(l, e) == CHOOSE i \in 1..Len(l) : l[i].ev = e /\ \A j \in 1..(i - 1) : l[j].ev # e
LastAt(l, e) == CHOOSE i \in 1..Len(l) : l[i].ev = e /\ \A j \in (i + 1)..Len(l) : l[j].ev # e

\* The statement a KeyboardInterrupt arrived at, None when none arrived
InterruptedAt(t) ==
    IF Has(log[t], "interrupt") THEN log[t][FirstAt(log[t], "interrupt")].arg
    ELSE None

\* The bytes the first n writes of the log handed to the sink
RECURSIVE Written(_, _)
Written(l, n) ==
    IF n = 0 THEN 0
    ELSE Events(l, "write")[n].arg + Written(l, n - 1)

\* The bytes the sink of the call received: the file, or the s3file handle
SinkBytes(t) ==
    IF args[t].op = "download" THEN Len(fs[path[t]].data) ELSE Len(dst_buf[t])

Ended(t, op) == pc[t] = "done" /\ args[t].op = op

-----------------------------------------------------------------------------
(* Claims *)

\* C1: a download whose resolved path is an existing file, called without
\* force_overwrite, ends at once with the conflict error: urlopen is not
\* called, nothing is read, no file is created and no file changes.  The
\* property is on every call a thread makes, the first and the repeated ones.
C1_ConflictBeforeNetwork ==
    [][\A t \in threads :
        ( /\ pc[t] = "idle" /\ pc'[t] # "idle"
          /\ args'[t].op = "download"
          /\ isfile(fs, ResolvePath(args'[t].path))
          /\ ~args'[t].force_overwrite )
        => /\ pc'[t] = "done"
           /\ outcome'[t] = "Conflict"
           /\ log'[t] = <<>>
           /\ ~dst_open'[t]
           /\ fs' = fs]_vars

\* C1 witness: a call has ended with the conflict error on a file that an
\* earlier call of the same run wrote
C1_Witness ==
    \E t \in threads :
        /\ Ended(t, "download")
        /\ outcome[t] = "Conflict"
        /\ fs[path[t]].exists
        /\ fs[path[t]].data # OldData

\* C2: when a KeyboardInterrupt arrives at a statement of the copy loop of
\* download, the call ends with the KeyboardInterrupt of line 114 and no
\* file is left at the resolved path.
C2_AbortLeavesNoFile ==
    \A t \in threads :
        (Ended(t, "download") /\ InterruptedAt(t) \in LoopBody)
        => /\ outcome[t] = "Aborted"
           /\ ~isfile(fs, path[t])
           /\ path[t] = ResolvePath(args[t].path)

\* C2 witness: a download was interrupted after it had written a chunk
C2_Witness ==
    \E t \in threads :
        /\ Ended(t, "download")
        /\ InterruptedAt(t) \in LoopBody
        /\ Has(log[t], "write")

\* C3 (as claimed): when a download returns, _bytes_received is the length
\* of the file written, and it is the size the Content-Length header gave.
C3_ReceivedIsWrittenAndAdvertised ==
    \A t \in threads :
        (Ended(t, "download") /\ outcome[t] = "returned")
        => /\ bytes_received = Len(fs[path[t]].data)
           /\ bytes_received = file_size[t]

\* C4: in a transfer of either method the counter is 0 when the sink is
\* opened; the values handed to on_progress never decrease; each is the
\* number of bytes written to the sink when the call is made; and when the
\* transfer returns, the last of them is the number of bytes the sink got.
C4_ProgressCountsWrittenBytes ==
    \A t \in threads :
        LET p == Events(log[t], "on_progress") IN
        /\ pc[t] = "open" => bytes_received = 0
        /\ \A i \in 1..Len(p) : \A j \in i..Len(p) : p[i].arg <= p[j].arg
        /\ \A i \in 1..Len(p) : p[i].arg = Written(log[t], i)
        /\ (pc[t] = "done" /\ outcome[t] = "returned" /\ p # <<>>)
           => /\ p[Len(p)].arg = SinkBytes(t)
              /\ p[Len(p)].arg = Written(log[t], Times(log[t], "write"))

\* C4 witness: a transfer has returned after two calls of on_progress
C4_Witness ==
    \E t \in threads :
        /\ pc[t] = "done"
        /\ outcome[t] = "returned"
        /\ Times(log[t], "on_progress") >= 2

\* C5 (as claimed): a download given on_finish calls it once, with the
\* resolved path, after the empty read and after every write and every
\* on_progress, when the transfer returns; and never when the transfer ends
\* with the conflict error, an abort or an I/O error.
C5_FinishOnlyOnSuccess ==
    \A t \in threads :
        (Ended(t, "download") /\ args[t].on_finish)
        => LET l == log[t] IN
           /\ outcome[t] = "returned"
              => /\ Times(l, "on_finish") = 1
                 /\ l[FirstAt(l, "on_finish")].arg = ResolvePath(args[t].path)
                 /\ \A i \in 1..Len(l) :
                       l[i].ev \in {"read", "write", "on_progress"}
                       => i < FirstAt(l, "on_finish")
                 /\ l[FirstAt(l, "on_finish") - 1] = Event("read", 0)
           /\ outcome[t] # "returned" => ~Has(l, "on_finish")

\* C6: when get_bucket does not find the bucket, download_s3 returns
\* (None, None) and raises nothing; urlopen is not called, no handle is
\* opened, nothing is written, no callback is called, no ACL is set and
\* neither the bucket nor the filesystem changes.
C6_BucketNotFoundIsReturned ==
    [][\A t \in threads :
        ( /\ pc[t] = "idle" /\ pc'[t] # "idle"
          /\ args'[t].op = "download_s3"
          /\ log'[t][1].ev = "get_bucket" /\ log'[t][1].arg = FALSE )
        => /\ pc'[t] = "done"
           /\ outcome'[t] = "returned"
           /\ retval'[t] = <<None, None>>
           /\ Len(log'[t]) = 1
           /\ ~dst_open'[t]
           /\ s3' = s3 /\ fs' = fs]_vars

\* C6 witness: a download_s3 has ended on a bucket that was not found
C6_Witness ==
    \E t \in threads :
        /\ Ended(t, "download_s3")
        /\ log[t][1].ev = "get_bucket" /\ log[t][1].arg = FALSE

\* C7: when a KeyboardInterrupt arrives at a statement of the copy loop of
\* download_s3, the call ends with the KeyboardInterrupt of line 194, no
\* object is left at the key and set_acl has not been called.
C7_AbortLeavesNoObject ==
    \A t \in threads :
        (Ended(t, "download_s3") /\ InterruptedAt(t) \in LoopBody)
        => /\ outcome[t] = "Aborted"
           /\ ~s3[video_key_path[t]].exists
           /\ ~Has(log[t], "set_acl")
           /\ video_key_path[t] = VideoKeyPath(args[t].video_dir)

\* C7 witness: a download_s3 was interrupted after it had written a chunk
C7_Witness ==
    \E t \in threads :
        /\ Ended(t, "download_s3")
        /\ InterruptedAt(t) \in LoopBody
        /\ Has(log[t], "write")

\* What C8 says of the calls that set the ACL: set_acl is called at most
\* once, after the empty read, after every write and after the close of the
\* handle; a call that returns (bucket, key) has called it, as its last
\* operation on the sink, and the object carries the ACL asked for.
AclAfterTheCopy(t) ==
    LET l == log[t] IN
    /\ Times(l, "set_acl") <= 1
    /\ Has(l, "set_acl")
       => /\ \E i \in 1..FirstAt(l, "set_acl") :
                l[i].ev = "read" /\ l[i].arg = 0
          /\ \A i \in 1..Len(l) :
                l[i].ev \in {"read", "write", "on_progress"}
                => i < FirstAt(l, "set_acl")
          /\ Has(l, "close") /\ FirstAt(l, "close") < FirstAt(l, "set_acl")
    /\ retval[t] = <<s3_bucket_name, video_key_path[t]>>
       => /\ outcome[t] = "returned"
          /\ Has(l, "set_acl")
          /\ l[Len(l)].ev = "set_acl"
          /\ s3[video_key_path[t]].exists
          /\ s3[video_key_path[t]].acl = args[t].acl_permission
          /\ s3[video_key_path[t]].data = dst_buf[t]

\* C8 (as claimed): AclAfterTheCopy, and a download_s3 that ends with an
\* abort, a failure or a bucket not found has not called set_acl.
C8_AclOnlyOnSuccess ==
    \A t \in threads :
        Ended(t, "download_s3")
        => /\ AclAfterTheCopy(t)
           /\ (outcome[t] # "returned" \/ retval[t] = <<None, None>>)
              => ~Has(log[t], "set_acl")

\* C8 (amended): AclAfterTheCopy, and a download_s3 that ends with a failure,
\* a bucket not found, or an abort whose KeyboardInterrupt arrived before
\* set_acl was called, has not called set_acl.  A KeyboardInterrupt that
\* arrives between set_acl (line 186) and the return (line 187) aborts a
\* call that has set the ACL; the handler then deletes the object.
C8_AclOnlyAfterCopy ==
    \A t \in threads :
        Ended(t, "download_s3")
        => /\ AclAfterTheCopy(t)
           /\ ( /\ outcome[t] # "returned" \/ retval[t] = <<None, None>>
                /\ InterruptedAt(t) # "return" )
              => ~Has(log[t], "set_acl")
           /\ InterruptedAt(t) = "return"
              => /\ outcome[t] = "Aborted"
                 /\ Has(log[t], "set_acl")
                 /\ ~s3[video_key_path[t]].exists

\* C8 witness: a download_s3 has returned (bucket, key) after writing a chunk
C8_Witness ==
    \E t \in threads :
        /\ Ended(t, "download_s3")
        /\ retval[t] = <<s3_bucket_name, video_key_path[t]>>
        /\ Has(log[t], "write")

\* C9: in both methods a handle that was opened is closed when the call has
\* ended, however it ended; the handle is open exactly from its open to its
\* close; and on the abort path the close comes before the removal of the
\* file or the deletion of the key.
C9_HandleClosedOnEveryExit ==
    \A t \in threads :
        LET l == log[t] IN
        /\ pc[t] \in {"idle", "done"} => ~dst_open[t]
        /\ dst_open[t] = (Has(l, "open") /\ ~Has(l, "close"))
        /\ (pc[t] = "done" /\ Has(l, "open"))
           => /\ Has(l, "close")
              /\ FirstAt(l, "open") < FirstAt(l, "close")
              /\ Has(l, "remove") => LastAt(l, "close") < FirstAt(l, "remove")
              /\ Has(l, "delete") => LastAt(l, "close") < FirstAt(l, "delete")

\* C9 witness: an aborted call that had opened its handle has ended
C9_Witness ==
    \E t \in threads :
        /\ pc[t] = "done"
        /\ outcome[t] = "Aborted"
        /\ Has(log[t], "open")
        /\ Has(log[t], "write")

\* C10 (as claimed): a download whose response carries no content length,
\* and that meets no conflict, no interrupt and no I/O error, returns with
\* every byte of the stream in the file.
C10_NoLengthStillDownloads ==
    \A t \in threads :
        ( /\ Ended(t, "download")
          /\ SizeHeader(meta_data) = None
          /\ outcome[t] # "Conflict"
          /\ ~Has(log[t], "interrupt") /\ ~Has(log[t], "fault") )
        => /\ outcome[t] = "returned"
           /\ fs[path[t]].exists
           /\ fs[path[t]].data = src

\* The sizes the reads of the call returned, in order
ReadSizesOf(t) ==
    LET r == Events(log[t], "read") IN [i \in 1..Len(r) |-> r[i].arg]

RECURSIVE SumUpTo(_, _)
SumUpTo(s, n) == IF n = 0 THEN 0 ELSE s[n] + SumUpTo(s, n - 1)

\* Every read of the call returned all it was asked for, or all that was left
FullReads(t) ==
    LET r == ReadSizesOf(t) IN
    \A i \in 1..Len(r) :
        r[i] = Min(args[t].chunk_size, Len(src) - SumUpTo(r, i - 1))

Ceil(n, d) == (n + d - 1) \div d

\* The sizes of the chunks of n bytes read c at a time
ChunkSizes(n, c) ==
    [i \in 1..Ceil(n, c) |-> IF i * c <= n THEN c ELSE n - (i - 1) * c]

\* C11 (as claimed): a download that returns from a source of N bytes whose
\* reads are never short has made exactly ceil(N / chunk_size) reads, of
\* sizes chunk_size, ..., chunk_size, remainder, and the file holds N bytes.
C11_ReadsAreCeilOfSize ==
    \A t \in threads :
        ( /\ Ended(t, "download") /\ outcome[t] = "returned"
          /\ FullReads(t) )
        => /\ ReadSizesOf(t) = ChunkSizes(Len(src), args[t].chunk_size)
           /\ Len(fs[path[t]].data) = Len(src)

\* C11 (amended): such a download has made ceil(N / chunk_size) + 1 reads:
\* the non-empty ones of sizes chunk_size, ..., chunk_size, remainder, and
\* after them the empty read that ends the loop; the file holds the N bytes
\* of the source.
C11_ReadsAreCeilOfSizeAndOneEmpty ==
    \A t \in threads :
        ( /\ Ended(t, "download") /\ outcome[t] = "returned"
          /\ FullReads(t) )
        => /\ ReadSizesOf(t) =
                  ChunkSizes(Len(src), args[t].chunk_size) \o <<0>>
           /\ Times(log[t], "read") =
                  Ceil(Len(src), args[t].chunk_size) + 1
           /\ Times(log[t], "write") = Ceil(Len(src), args[t].chunk_size)
           /\ fs[path[t]].data = src

\* C11 witness: a returned download read a source longer than one chunk in
\* full chunks
C11_Witness ==
    \E t \in threads :
        /\ Ended(t, "download") /\ outcome[t] = "returned"
        /\ FullReads(t)
        /\ Len(src) > args[t].chunk_size
        /\ Times(log[t], "write") >= 2

\* Lexicographic order of two str, said without recursion: at the first
\* index where they differ a is the smaller, or a is a proper prefix of b
LexLess(a, b) ==
    \E k \in 1..(Len(b)) :
        /\ \A i \in 1..(k - 1) : i <= Len(a) /\ a[i] = b[i]
        /\ k <= Len(a) => a[k] < b[k]
        /\ k > Len(a) => k = Len(a) + 1

\* What the call videos[i] < videos[j] returned
LtOf(i, j) ==
    \E c \in lt_result : c.self = i /\ c.other = j /\ c.result

\* "{extension} {resolution}" of videos[i], None written as the word None
Formatted(i) ==
    videos[i].extension \o <<32>> \o
    (IF videos[i].resolution = NoResolution THEN <<78, 111, 110, 101>>
     ELSE videos[i].resolution.str)

\* C12: A < B of two Video objects is the lexicographic comparison of their
\* strings "{extension} {resolution}", a missing resolution being the word
\* None; the relation is antisymmetric and transitive.
C12_LtIsLexicographic ==
    lt_result # {} =>
        \A i \in 1..NumVideos, j \in 1..NumVideos :
            /\ LtOf(i, j) <=> LexLess(Formatted(i), Formatted(j))
            /\ ~(LtOf(i, j) /\ LtOf(j, i))
            /\ \A k \in 1..NumVideos : (LtOf(i, j) /\ LtOf(j, k)) => LtOf(i, k)

\* C12 witness: three Video objects were compared, one of them without a
\* resolution, and they form a chain a < b < c
C12_Witness ==
    /\ lt_result # {}
    /\ \E i \in 1..NumVideos : videos[i].resolution = NoResolution
    /\ \E i \in 1..NumVideos, j \in 1..NumVideos, k \in 1..NumVideos :
        LtOf(i, j) /\ LtOf(j, k) /\ videos[j].resolution = NoResolution

\* The path argument without its "." components
Normal(p) == SelectSeq(p, LAMBDA c : c # ".")

\* The destination as the claim has it: the file of the Video inside the
\* directory given, or the path given, component for component
VerbatimPath(p) ==
    IF Normal(p) \in Dirs THEN p \o <<"clip.mp4">> ELSE p

\* The destination with the path normalised first
NormalPath(p) ==
    IF Normal(p) \in Dirs THEN Normal(p) \o <<"clip.mp4">> ELSE Normal(p)

\* The paths a download handed to open, os.remove and on_finish
PathsUsed(t) ==
    { log[t][i].arg : i \in { j \in 1..Len(log[t]) :
                               log[t][j].ev \in {"open", "remove", "on_finish"} } }

\* C13 (as claimed): the path a download opens, removes on abort and hands
\* to on_finish is the file of the Video inside the directory given, or
\* else the path given, verbatim.
C13_PathIsVerbatim ==
    \A t \in threads :
        (args[t].op = "download" /\ pc[t] # "idle")
        => \A p \in PathsUsed(t) : p = VerbatimPath(args[t].path)

\* C13 (amended): the destination of a download is the normalised path
\* given, with the file name of the Video joined to it when it is a
\* directory.  That one path is the path tested for a conflict, the path
\* opened and written, the path removed on abort and the path handed to
\* on_finish.
C13_OneNormalisedPath ==
    \A t \in threads :
        (args[t].op = "download" /\ pc[t] # "idle")
        => LET d == NormalPath(args[t].path) IN
           /\ path[t] = d
           /\ \A p \in PathsUsed(t) : p = d
           /\ outcome[t] = "Conflict"
              => fs[d].exists /\ ~args[t].force_overwrite
           /\ pc[t] = "urlopen"
              => ~fs[d].exists \/ args[t].force_overwrite
           /\ (dst_open[t] /\ pc[t] = "read")
              => /\ fs[d].exists
                 /\ fs[d].data = SubSeq(src, 1, pos[t])

\* C13 witness: a download to a directory given in a form that is not
\* normal has written a chunk, called on_finish and returned
C13_Witness ==
    \E t \in threads :
        /\ Ended(t, "download") /\ outcome[t] = "returned"
        /\ args[t].path # Normal(args[t].path)
        /\ Normal(args[t].path) \in Dirs
        /\ Has(log[t], "write") /\ Has(log[t], "on_finish")

\* The reads of the log that returned bytes
NonEmptyReads(l) ==
    Cardinality({ i \in 1..Len(l) : l[i].ev = "read" /\ l[i].arg > 0 })

\* on_progress has been called once for every chunk read so far, or never
\* when the caller gave no on_progress
ProgressPerChunk(t) ==
    IF args[t].on_progress
    THEN Times(log[t], "on_progress") = NonEmptyReads(log[t])
    ELSE ~Has(log[t], "on_progress")

C15_TransferStateIsPrivate ==
    \A t \in threads, u \in threads :
        ( /\ t # u
          /\ pc[t] # "idle" /\ pc[u] # "idle"
          /\ path[t] # path[u] )
        => LET p == Events(log[t], "on_progress") IN
           /\ \A i \in 1..Len(p) : p[i].arg = Written(log[t], i)
           /\ (dst_open[t] /\ pc[t] = "read")
              => fs[path[t]].data = SubSeq(src, 1, pos[t])

\* What the sink of the call holds: the file, or what the s3file handle took
SinkData(t) ==
    IF args[t].op = "download" THEN fs[path[t]].data ELSE dst_buf[t]

\* An event that ends the loop from outside
Broken(e) == e.ev \in {"fault", "interrupt"}

\* C16: in one transfer reads and writes alternate.  A read that returned
\* bytes is followed by the write of as many bytes, the write by the
\* on_progress call when there is one, and only then comes the next read;
\* each time the transfer is about to read, its sink holds the bytes of the
\* source consumed so far, in order, and _bytes_received is their number.
C16_ReadsAndWritesAlternate ==
    \A t \in threads :
        LET l == log[t] IN
        /\ \A i \in 1..(Len(l) - 1) :
            /\ (l[i].ev = "read" /\ l[i].arg > 0)
               => \/ l[i + 1].ev = "write" /\ l[i + 1].arg = l[i].arg
                  \/ Broken(l[i + 1])
            /\ l[i].ev = "write"
               => \/ l[i + 1].ev =
                        (IF args[t].on_progress THEN "on_progress" ELSE "read")
                  \/ Broken(l[i + 1])
            /\ l[i].ev = "on_progress"
               => l[i + 1].ev = "read" \/ Broken(l[i + 1])
            /\ l[i + 1].ev = "read"
               => l[i].ev \in {"open", "write", "on_progress"}
        /\ (pc[t] = "read" /\ dst_open[t])
           => /\ SinkData(t) = SubSeq(src, 1, pos[t])
              /\ bytes_received = pos[t]

\* C16 witness: a transfer with on_progress is about to read for the third
\* time, two chunks written
C16_Witness ==
    \E t \in threads :
        /\ pc[t] = "read" /\ dst_open[t]
        /\ args[t].on_progress
        /\ Times(log[t], "write") = 2
        /\ Times(log[t], "on_progress") = 2

\* Thread u has passed the conflict test for path d and has not yet opened it
BetweenCheckAndOpen(u, d) ==
    /\ pc[u] \in {"urlopen", "meta", "open"}
    /\ args[u].op = "download"
    /\ path[u] = d

\* C17: the conflict test of download looks at the filesystem only.  A call
\* without force_overwrite whose file does not exist passes the test, also
\* while another call that passed the test for the same path is on its way
\* to open it; the call fails with the conflict only when the file exists.
C17_CheckThenOpenRaces ==
    [][\A t \in threads :
        (pc[t] = "idle" /\ pc'[t] # "idle" /\ args'[t].op = "download")
        => LET d == NormalPath(args'[t].path) IN
           /\ (~fs[d].exists /\ \E u \in threads \ {t} : BetweenCheckAndOpen(u, d))
              => pc'[t] = "urlopen"
           /\ (pc'[t] = "done" /\ outcome'[t] = "Conflict")
              <=> (fs[d].exists /\ ~args'[t].force_overwrite)]_vars

\* C17 witness: two calls without force_overwrite to one path that did not
\* exist have both written to it, and neither has failed with the conflict
C17_Witness ==
    \E t \in threads, u \in threads :
        /\ t # u
        /\ args[t].op = "download" /\ args[u].op = "download"
        /\ ~args[t].force_overwrite /\ ~args[u].force_overwrite
        /\ path[t] = path[u]
        /\ Has(log[t], "write") /\ Has(log[u], "write")
        /\ outcome[t] # "Conflict" /\ outcome[u] # "Conflict"

\* The call of t ended by an error of the read or of the write of the loop
FaultedInLoop(t) ==
    /\ pc[t] = "done"
    /\ \E i \in 1..Len(log[t]) :
        log[t][i].ev = "fault" /\ log[t][i].arg \in {"read", "write"}

\* C18: an error of a read or of a write of the copy loop reaches the caller
\* as the I/O error it is, not as the abort; nothing deletes the partial
\* output and on_finish is not called.  The abort is raised only by a call
\* that a KeyboardInterrupt reached.
C18_FaultIsNotAbort ==
    \A t \in threads :
        /\ FaultedInLoop(t)
           => /\ outcome[t] = "IOError"
              /\ ~Has(log[t], "remove") /\ ~Has(log[t], "delete")
              /\ ~Has(log[t], "on_finish")
              /\ args[t].op = "download"
                 => /\ fs[path[t]].exists
                    /\ fs[path[t]].data = dst_buf[t]
              /\ args[t].op = "download_s3"
                 => /\ s3[video_key_path[t]].exists
                    /\ s3[video_key_path[t]].data = dst_buf[t]
        /\ (pc[t] = "done" /\ outcome[t] = "Aborted")
           => Has(log[t], "interrupt")

\* C18 witness: a write of a download failed after an earlier chunk had
\* been written; the file with that chunk is still there
C18_Witness ==
    \E t \in threads :
        /\ FaultedInLoop(t)
        /\ args[t].op = "download"
        /\ log[t][FirstAt(log[t], "fault")].arg = "write"
        /\ fs[path[t]].data # <<>>

\* Thread t leaves the while loop in this step
LeavesLoop(t) == pc[t] \in LoopBody \ {"on_finish"} /\ pc'[t] \notin LoopBody

\* C19: a call that has started ends, given that its reads and writes
\* return and that the source runs out; and the loop is left only by a read
\* that returned no bytes, by a KeyboardInterrupt or by an I/O error.
C19_CallTerminates ==
    /\ \A t \in Threads : (pc[t] \notin {"idle", "done"}) ~> (pc[t] = "done")
    /\ [][\A t \in threads :
            LeavesLoop(t)
            => LET e == log'[t][Len(log[t]) + 1] IN
               \/ pc[t] = "read" /\ e.ev = "read" /\ e.arg = 0
               \/ e.ev = "interrupt" /\ outcome'[t] \in {"Aborted", "RemoveError"}
               \/ e.ev = "fault" /\ outcome'[t] = "IOError"]_vars

\* C19 witness: a call has ended by returning after it read in more than
\* one chunk a source that then ran out
C19_Witness ==
    \E t \in threads :
        /\ pc[t] = "done" /\ outcome[t] = "returned"
        /\ Times(log[t], "read") >= 3
        /\ pos[t] = Len(src)

\* C20: a download with force_overwrite to a file that exists drops the old
\* bytes when it opens the file, and a KeyboardInterrupt in the copy loop
\* then removes the file: after the aborted overwrite the path holds
\* neither the old file nor a partial new one.
C20_AbortedOverwriteLeavesNothing ==
    \A t \in threads :
        (args[t].op = "download" /\ Has(log[t], "truncate"))
        => /\ args[t].force_overwrite
           /\ (dst_open[t] /\ pc[t] = "read")
              => fs[path[t]].data = SubSeq(src, 1, pos[t])
           /\ (pc[t] = "done" /\ InterruptedAt(t) \in LoopBody)
              => /\ outcome[t] = "Aborted"
                 /\ ~fs[path[t]].exists
                 /\ fs[path[t]].data = <<>>

\* C20 witness: the file held old bytes, the download opened it, wrote a
\* chunk over it and was interrupted
C20_Witness ==
    \E t \in threads :
        /\ Ended(t, "download")
        /\ Has(log[t], "truncate")
        /\ log[t][FirstAt(log[t], "truncate")].arg > 0
        /\ Has(log[t], "write")
        /\ InterruptedAt(t) \in LoopBody

=============================================================================
